---- MODULE Spec2Model ----
(***************************************************************************)
(* Model of the streaming session manager of realtime_transcribe:          *)
(*   - SonioxWSClient  (src/lib/soniox/rotator.ts, lines 250-462): one     *)
(*     Connection, its socket(s), its audio queue and its reconnect timer; *)
(*   - SessionRotator  (src/lib/soniox/rotator.ts, lines 8-149): primary / *)
(*     secondary slots, rotation timer and overlap timer;                  *)
(*   - Page            (src/app/page.tsx): the component that owns a       *)
(*     Connection directly, its force-close timer and its texts;           *)
(*   - the login session (src/unnamed/part_003, src/app/api/*/route.ts):   *)
(*     the session token, the cookies of a browser and the routes that     *)
(*     read them.                                                          *)
(* The browser's WebSocket and the event loop are the environment: socket  *)
(* events, timers and the caller's API calls are the actions.  One action  *)
(* is one run-to-completion callback of the single-threaded event loop.    *)
(***************************************************************************)
EXTENDS Integers, Sequences, FiniteSets, TLC

\* ---------------------------------------------------------------- bounds
\* a session with one rotation or one reconnect (Spec, SpecBlob)
MaxClients == 2      \* SonioxWSClient instances constructed in a run
MaxSockets == 2      \* WebSocket objects constructed in a run
MaxFrames  == 2      \* audio frames the producer submits in a run
\* a session long enough for a second rotation (SpecLong)
LongClients == 3     \* SonioxWSClient instances constructed in a run
LongSockets == 3     \* WebSocket objects constructed in a run
MaxInflight == 1     \* Blob messages being decoded at one time
\* one Connection driven by a caller of its own (SpecConn)
ConnSockets == 2     \* WebSocket objects constructed in a run
MaxCloses == 2       \* calls of close() the caller makes in a run
\* one Connection whose sockets keep failing (SpecOutage)
OutageSockets == 7   \* WebSocket objects constructed in a run
\* the page and the Connections it constructs (SpecPage)
PageClients == 2     \* SonioxWSClient instances constructed in a run
PageSockets == 2     \* WebSocket objects constructed in a run
PageFrames == 1      \* audio frames the recorders hand over in a run
\* one Connection whose caller connects it again once CLOSED (SpecReuse)
ReuseSockets == 3    \* WebSocket objects constructed in a run
\* a session whose sockets all open, into its second rotation (SpecAge)
AgeClients == 3      \* SonioxWSClient instances constructed in a run
AgeSockets == 4      \* WebSocket objects constructed in a run
\* a browser that logs in and calls the routes over some hours (SpecAuth)
AuthTicks == 3       \* steps of TickMs the server clock makes in a run
\* one session of the page that receives result messages (SpecTokens)
TokenClients == 1    \* SonioxWSClient instances (and sockets) constructed
MaxTokens == 2       \* tokens in one result message
MaxText == 2         \* tokens in the final texts before the last message

\* ------------------------------------------------------- program constants
maxReconnectAttempts == 5
ROTATION_INTERVAL == 55 * 60 * 1000
\* upstream ends a stream that has lasted 60 minutes
HardLimit == 60 * 60 * 1000
OVERLAP_DURATION == 10 * 1000
NormalClosure == 1000
\* the code a browser reports for a closure without a close frame
AbnormalClosure == 1006
\* scheduleReconnect: Math.min(1000 * Math.pow(2, attempts), 8000)
BaseDelay == 1000
MaxDelay == 8000

\* session.ts: SESSION_COOKIE_NAME, SESSION_MAX_AGE_SECONDS
SESSION_COOKIE_NAME == "rt_auth"
SESSION_MAX_AGE_SECONDS == 12 * 60 * 60
\* the server clock is read every TickMs (6 hours)
TickMs == 6 * 60 * 60 * 1000

Null == 0
\* a SonioxConfig: the credential and (model) the fields that are not one;
\* a temporary key is named by the number of the fetch that obtained it
NoConfig == [api_key |-> Null, model |-> "none"]
Cfg == [api_key |-> 1, model |-> "stt-rt-preview"]

Larger(a, b) == IF a >= b THEN a ELSE b
ClientIds == 1..Larger(MaxClients, LongClients)
SocketIds == 1..Larger(Larger(Larger(MaxSockets, LongSockets),
                               Larger(ConnSockets, OutageSockets)),
                        Larger(AgeSockets, ReuseSockets))

WSState == {"IDLE", "CONNECTING", "CONNECTED", "STREAMING", "ERROR", "CLOSED"}

\* messages a client puts on a socket
ConfigMsg == [t |-> "config"]
AudioMsg(n) == [t |-> "audio", n |-> n]
FinalizeMsg == [t |-> "finalize"]

\* -------------------------------------------------- messages of upstream
\* a Token of a result message; an optional field that is missing is "absent"
Sentinel == "<fin>"
PaddedSentinel == " <fin>"

Tok(text, is_final, final, status, speaker) ==
  [text |-> text, is_final |-> is_final, final |-> final,
   translation_status |-> status, speaker |-> speaker]

\* a parsed message: error is "the error field is a string", tokens is
\* the tokens array (<<>>: no such field, or an empty array)
PlainMsg == [error |-> FALSE, finished |-> FALSE, tokens |-> <<>>]
ErrorMsg == [PlainMsg EXCEPT !.error = TRUE]
FinishedMsg == [PlainMsg EXCEPT !.finished = TRUE]
ResultMsg(tokens) == [PlainMsg EXCEPT !.tokens = tokens]

\* no message: the running task is not an inbound message
NoMessage == [k |-> "none", s |-> Null, m |-> PlainMsg]

\* the interim texts a handleMessage closure captured from its render
NoClosure == [originalInterim |-> <<>>, translatedInterim |-> <<>>]

VARIABLES
  primaryClient,    \* SessionRotator.primaryClient   (client id or Null)
  secondaryClient,  \* SessionRotator.secondaryClient (client id or Null)
  rotationTimer,    \* the timeout of scheduleRotation is pending
  overlapTimer,     \* the anonymous overlap timeout of rotate() is pending
  currentConfig,    \* SessionRotator.currentConfig
  clients,          \* the SonioxWSClient instances, by id
  sockets,          \* the WebSocket objects, by id
  nextFrame,        \* the next audio frame the producer submits
  inflight,         \* Blob messages whose text() has not resolved yet (by socket)
  forwarded,        \* the messages the running task gave to the Result Consumer
  audioCalls,       \* the SonioxWSClient.sendAudio calls the running task made
  flushed,          \* the queued chunks the running task flushed to a socket
  stopped,          \* stop() has been called
  task,             \* the position inside the running event-loop task
  now,              \* ms from start() to the latest timer callback of the rotator
  rotationDue,      \* the time the pending rotation timeout fires at
  overlapDue,       \* the time the pending overlap timeout fires at
  stateChanges,     \* the state changes setState made in the running task
  errors,           \* the handleError calls of the running task (by client)
  received,         \* the inbound message the running task was given
  \* the Page component (src/app/page.tsx)
  wsState,             \* useState wsState: the state handleStateChange saw last
  wsClientRef,         \* wsClientRef.current (client id or Null)
  audioRecorderRef,    \* audioRecorderRef.current is an AudioRecorder
  recorders,           \* AudioRecorder instances that are recording
  finalizeTimeoutRef,  \* the client the pending force-close timeout closes
  awaitingFinalizeRef, \* awaitingFinalizeRef.current
  originalFinalText,   \* useState texts: sequences of token texts
  translatedFinalText,
  originalInterim,
  translatedInterim,
  fetching,            \* the calls of handleStart that await their fetch
  closures,            \* the interim texts the handleMessage closure given
                       \* to each client captured
  \* the login session (src/unnamed/part_003, src/app/api)
  jar,                 \* the cookies the browser sends, by name
  clock,               \* Date.now() of the server
  response             \* the response of the route called last

vars == <<primaryClient, secondaryClient, rotationTimer, overlapTimer,
          currentConfig, clients, sockets, nextFrame, inflight,
          forwarded, audioCalls, flushed, stopped, task,
          now, rotationDue, overlapDue, stateChanges, errors, received,
          wsState, wsClientRef, audioRecorderRef, recorders,
          finalizeTimeoutRef, awaitingFinalizeRef, originalFinalText,
          translatedFinalText, originalInterim, translatedInterim,
          fetching, closures, jar, clock, response>>

AuthVars == <<jar, clock, response>>

TextVars == <<originalFinalText, translatedFinalText, originalInterim,
              translatedInterim>>

PageVars == <<wsClientRef, audioRecorderRef, recorders, finalizeTimeoutRef,
              awaitingFinalizeRef, TextVars, fetching, closures, AuthVars>>

IdleTask == [k |-> "idle", s |-> Null, code |-> 0, c |-> Null]

\* a cookie value as verifySessionToken reads it.  parts: the parts
\* token.split('.') yields that are not empty (0: no cookie, or an empty
\* one); typed: the first part decodes to an object with a numeric issuedAt;
\* issuedAt: that number; key: the key the second part was computed with
NoToken == [parts |-> 0, typed |-> FALSE, issuedAt |-> 0, key |-> "none"]
\* process.env.SESSION_SECRET, and what somebody without it signs with
Secret == "SESSION_SECRET"
Guess == "guess"

\* no cookie of that name
NoCookie == ""

\* no route has been called in the running task
NoResponse == [route |-> "none", status |-> 0, smoothed |-> FALSE]

\* a SonioxWSClient as its constructor leaves it; role "none": not constructed
NoClient ==
  [role |-> "none", state |-> "IDLE", ws |-> Null, reconnectAttempts |-> 0,
   reconnectTimeout |-> FALSE, config |-> NoConfig, pendingAudioChunks |-> <<>>,
   finalizeRequested |-> FALSE,
   connectPromise |-> "none",   \* the promise the last connect() returned
   closes |-> 0,                \* calls of close() so far
   since |-> 0,                 \* the time the constructor ran at
   delays |-> <<>>,             \* the delays of the reconnect timeouts armed
                                \* since a socket of the client last opened
   timers |-> 0]                \* the reconnect timeouts that are pending;
                                \* reconnectTimeout: the one whose handle the
                                \* field holds is pending

\* errored: upstream has sent an error message on the socket
NoSocket == [owner |-> Null, readyState |-> "none", sent |-> <<>>,
             errored |-> FALSE]

NumClients(cl) == Cardinality({c \in ClientIds : cl[c].role # "none"})
NumSockets(so) == Cardinality({s \in SocketIds : so[s].readyState # "none"})

\* ------------------------------------------------------------ WebSocket
\* WebSocket.send throws InvalidStateError on a socket that is CONNECTING
SendThrows(so, s) == so[s].readyState = "connecting"

\* WebSocket.send that does not throw: data is transmitted on an OPEN socket
\* and silently discarded on a CLOSING or CLOSED one.
SocketSend(so, s, m) ==
  IF so[s].readyState = "open"
    THEN [so EXCEPT ![s].sent = Append(@, m)]
    ELSE so

\* WebSocket.close(1000): an open socket starts the closing handshake; a
\* socket that is still connecting is aborted (it can only fail afterwards).
SocketCloseCall(so, s) ==
  IF so[s].readyState = "open" THEN [so EXCEPT ![s].readyState = "closing"]
  ELSE IF so[s].readyState = "connecting" THEN [so EXCEPT ![s].readyState = "aborting"]
  ELSE so

\* ------------------------------------------------------- SonioxWSClient
\* The methods are operators on w = [cl |-> clients, so |-> sockets,
\* calls |-> the sendAudio calls made so far in the running task,
\* flushed |-> the queued chunks flushPendingAudio has sent in it,
\* changes |-> the state changes made in it, errors |-> its handleError calls,
\* thrown |-> a method has thrown to its caller].

setState(w, c, newState) ==
  IF w.cl[c].state # newState
    THEN [w EXCEPT !.cl[c].state = newState,
                   !.changes = Append(@, [c |-> c, from |-> w.cl[c].state,
                                          to |-> newState])]
    ELSE w

handleError(w, c) == [w EXCEPT !.errors = Append(@, c)]

\* new SonioxWSClient(handler, ...) at time t: role names the handler bound,
\* a SessionRotator handler or ("direct") the handlers of a caller of its own
NewClient(w, c, role, t) ==
  [w EXCEPT !.cl[c] = [NoClient EXCEPT !.role = role, !.since = t]]

\* a call of connect() that passes the guard constructs a WebSocket
ConnectOpensSocket(w, c) == w.cl[c].state \notin {"CONNECTING", "CONNECTED"}

\* connect() is an async function without an await: it runs to its end in
\* the caller's task and the promise it returns is resolved on return, on the
\* early return as well (new WebSocket(url) with the fixed, valid url does
\* not throw, and the catch block would swallow it: the promise never rejects)
connect(w, c, config) ==
  IF ~ConnectOpensSocket(w, c) THEN [w EXCEPT !.cl[c].connectPromise = "resolved"]
  ELSE LET s == NumSockets(w.so) + 1
           w1 == setState([w EXCEPT !.cl[c].config = config,
                                    !.cl[c].pendingAudioChunks = <<>>,
                                    !.cl[c].finalizeRequested = FALSE],
                          c, "CONNECTING")
       IN
       [w1 EXCEPT !.cl[c].ws = s,
                 !.cl[c].connectPromise = "resolved",
                 !.so[s] = [NoSocket EXCEPT !.owner = c, !.readyState = "connecting"]]

RECURSIVE SendAll(_, _, _)
SendAll(so, s, chunks) ==
  IF chunks = <<>> THEN so
  ELSE SendAll(SocketSend(so, s, AudioMsg(Head(chunks))), s, Tail(chunks))

RECURSIVE Reverse(_)
Reverse(q) == IF q = <<>> THEN <<>> ELSE Append(Reverse(Tail(q)), Head(q))

flushPendingAudioReversed(w, c) ==
  LET me == w.cl[c] IN
  IF me.ws = Null \/ me.state # "STREAMING" \/ Len(me.pendingAudioChunks) = 0
    THEN w
    ELSE [w EXCEPT !.cl[c].pendingAudioChunks = <<>>,
                   !.so = SendAll(w.so, me.ws, Reverse(me.pendingAudioChunks)),
                   !.flushed = me.pendingAudioChunks]

\* flushPendingAudio(), called by ws.onopen right after this.ws.send(config)
\* returned: the sends to the same socket in the same task do not throw
flushPendingAudio(w, c) ==
  LET me == w.cl[c] IN
  IF me.ws = Null \/ me.state # "STREAMING" \/ Len(me.pendingAudioChunks) = 0
    THEN w
    ELSE [w EXCEPT !.cl[c].pendingAudioChunks = <<>>,
                   !.so = SendAll(w.so, me.ws, me.pendingAudioChunks),
                   !.flushed = me.pendingAudioChunks]

onopenConfigLast(w, c) ==
  LET w1 == [setState(w, c, "CONNECTED") EXCEPT !.cl[c].reconnectAttempts = 0]
      me == w1.cl[c]
  IN IF me.ws # Null /\ me.config # NoConfig
       THEN LET w2 == flushPendingAudio(setState(w1, c, "STREAMING"), c)
            IN [w2 EXCEPT !.so = SocketSend(w2.so, me.ws, ConfigMsg)]
       ELSE w1

\* ws.onopen; this.ws.send(configJson) throws out of the handler when
\* this.ws is (another socket and) still connecting
onopen(w, c) ==
  LET w1 == [setState(w, c, "CONNECTED") EXCEPT !.cl[c].reconnectAttempts = 0]
      me == w1.cl[c]
  IN IF me.ws # Null /\ me.config # NoConfig
       THEN IF SendThrows(w1.so, me.ws) THEN [w1 EXCEPT !.thrown = TRUE]
            ELSE flushPendingAudio(
                   setState([w1 EXCEPT !.so = SocketSend(w1.so, me.ws, ConfigMsg)],
                            c, "STREAMING"), c)
       ELSE w1

sendAudioAfterFinalize(w0, c, f) ==
  LET w == [w0 EXCEPT !.calls = Append(@, c)]
      me == w.cl[c]
  IN IF me.ws # Null /\ me.state = "STREAMING"
       THEN [w EXCEPT !.so = SocketSend(w.so, me.ws, AudioMsg(f))]
       ELSE [w EXCEPT !.cl[c].pendingAudioChunks = Append(@, f)]

sendAudio(w0, c, f) ==
  LET w == [w0 EXCEPT !.calls = Append(@, c)]
      me == w.cl[c]
  IN IF me.ws # Null /\ me.state = "STREAMING"
       THEN IF me.finalizeRequested THEN w
            ELSE IF SendThrows(w.so, me.ws) THEN [w EXCEPT !.thrown = TRUE]
            ELSE [w EXCEPT !.so = SocketSend(w.so, me.ws, AudioMsg(f))]
       ELSE [w EXCEPT !.cl[c].pendingAudioChunks = Append(@, f)]

finalizeFlagFirst(w, c) ==
  LET me == w.cl[c] IN
  IF me.ws = Null \/ me.finalizeRequested THEN w
  ELSE IF me.state \in {"CONNECTED", "STREAMING"}
    THEN IF SendThrows(w.so, me.ws)
           THEN handleError([w EXCEPT !.cl[c].finalizeRequested = TRUE], c)
           ELSE [w EXCEPT !.so = SocketSend(w.so, me.ws, FinalizeMsg),
                          !.cl[c].finalizeRequested = TRUE]
    ELSE w

\* finalize(): the send and the flag are in a try block whose catch block
\* calls handleError
finalize(w, c) ==
  LET me == w.cl[c] IN
  IF me.ws = Null \/ me.finalizeRequested THEN w
  ELSE IF me.state \in {"CONNECTED", "STREAMING"}
    THEN IF SendThrows(w.so, me.ws) THEN handleError(w, c)
         ELSE [w EXCEPT !.so = SocketSend(w.so, me.ws, FinalizeMsg),
                        !.cl[c].finalizeRequested = TRUE]
    ELSE w

\* clearTimeout(this.reconnectTimeout): a no-op on a timeout that has fired
clearTimeout(me) == IF me.reconnectTimeout THEN me.timers - 1 ELSE me.timers

close(w, c) ==
  LET me == w.cl[c]
      w1 == [w EXCEPT !.cl[c].reconnectTimeout = FALSE,
                      !.cl[c].timers = clearTimeout(me),
                      !.cl[c].ws = Null,
                      !.cl[c].closes = @ + 1,
                      !.so = IF me.ws # Null THEN SocketCloseCall(w.so, me.ws)
                                             ELSE w.so]
  IN [setState(w1, c, "CLOSED") EXCEPT !.cl[c].pendingAudioChunks = <<>>,
                                       !.cl[c].finalizeRequested = FALSE]

Pow2(n) == IF n = 0 THEN 1 ELSE IF n = 1 THEN 2 ELSE IF n = 2 THEN 4
           ELSE IF n = 3 THEN 8 ELSE IF n = 4 THEN 16 ELSE 32

Min(a, b) == IF a <= b THEN a ELSE b

scheduleReconnectUncapped(w, c) ==
  LET delay == BaseDelay * Pow2(w.cl[c].reconnectAttempts) IN
  [w EXCEPT !.cl[c].reconnectTimeout = TRUE,
            !.cl[c].timers = clearTimeout(w.cl[c]) + 1,
            !.cl[c].reconnectAttempts = @ + 1,
            !.cl[c].delays = Append(@, delay)]

scheduleReconnect(w, c) ==
  LET delay == Min(BaseDelay * Pow2(w.cl[c].reconnectAttempts), MaxDelay) IN
  [w EXCEPT !.cl[c].reconnectTimeout = TRUE,
            !.cl[c].timers = clearTimeout(w.cl[c]) + 1,
            !.cl[c].reconnectAttempts = @ + 1,
            !.cl[c].delays = Append(@, delay)]

\* ws.onerror
onerror(w, c) == handleError(setState(w, c, "ERROR"), c)

oncloseNoReconnect(w, c, code) == setState(w, c, "CLOSED")

oncloseUnbounded(w, c, code) ==
  LET w1 == setState(w, c, "CLOSED") IN
  IF code # NormalClosure THEN scheduleReconnect(w1, c) ELSE w1

\* ws.onclose
onclose(w, c, code) ==
  LET w1 == setState(w, c, "CLOSED") IN
  IF code # NormalClosure /\ w1.cl[c].reconnectAttempts < maxReconnectAttempts
    THEN scheduleReconnect(w1, c)
    ELSE w1

\* the objects as a task finds them
World == [cl |-> clients, so |-> sockets, calls |-> <<>>, flushed |-> <<>>,
          changes |-> <<>>, errors |-> <<>>, thrown |-> FALSE]

Idle == task.k = "idle"

Init ==
  /\ primaryClient = Null
  /\ secondaryClient = Null
  /\ rotationTimer = FALSE
  /\ overlapTimer = FALSE
  /\ currentConfig = NoConfig
  /\ clients = [c \in ClientIds |-> NoClient]
  /\ sockets = [s \in SocketIds |-> NoSocket]
  /\ nextFrame = 1
  /\ inflight = {}
  /\ forwarded = <<>>
  /\ audioCalls = <<>>
  /\ flushed = <<>>
  /\ stopped = FALSE
  /\ task = IdleTask
  /\ now = 0
  /\ rotationDue = 0
  /\ overlapDue = 0
  /\ stateChanges = <<>>
  /\ errors = <<>>
  /\ received = NoMessage
  /\ wsState = "IDLE"
  /\ wsClientRef = Null
  /\ audioRecorderRef = FALSE
  /\ recorders = 0
  /\ finalizeTimeoutRef = Null
  /\ awaitingFinalizeRef = FALSE
  /\ originalFinalText = <<>>
  /\ translatedFinalText = <<>>
  /\ originalInterim = <<>>
  /\ translatedInterim = <<>>
  /\ fetching = <<>>
  /\ closures = [c \in ClientIds |-> NoClosure]
  /\ jar = [rt_auth |-> NoToken, session |-> NoCookie]
  /\ clock = 0
  /\ response = NoResponse


\* ------------------------------------------------------- SessionRotator
\* the ids of the objects a constructor call creates next
NextClient == NumClients(clients) + 1
\* nc clients and ns sockets is what a run may construct
CanConstruct(nc, ns) ==
  /\ NumClients(clients) < nc
  /\ NumSockets(sockets) < ns

\* the Result Consumer is SessionRotator.messageHandler, set by the
\* constructor and never cleared; a message is recorded by its source client
handlePrimaryMessage(c) ==
  IF secondaryClient = Null THEN <<c>> ELSE <<>>

handleSecondaryMessage(c) == <<c>>

\* the messageHandler client c was constructed with
messageHandler(c) ==
  IF clients[c].role = "primary" THEN handlePrimaryMessage(c)
  ELSE IF clients[c].role = "secondary" THEN handleSecondaryMessage(c)
  ELSE <<c>>

\* the errorHandler client c was constructed with, by what it hands on to
\* the caller of the object that owns c: the rotator's handlers only write
\* to the console, the page's handleError shows the error (setError)
errorHandler(c) ==
  IF clients[c].role \in {"primary", "secondary"} THEN <<>> ELSE <<c>>

\* a task that gives the consumer nothing, submits no audio, flushes nothing
Quiet ==
  /\ forwarded' = <<>>
  /\ audioCalls' = <<>>
  /\ flushed' = <<>>
  /\ received' = NoMessage

\* what the task running on w told the handlers of its clients
\* the page's handleStateChange (setWsState) is the stateChangeHandler of
\* the clients the page constructs; the rotator passes undefined
handleStateChange(w) ==
  LET mine == SelectSeq(w.changes, LAMBDA n : w.cl[n.c].role \in {"direct", "page"})
  IN IF mine = <<>> THEN wsState ELSE mine[Len(mine)].to

Notes(w) ==
  /\ stateChanges' = w.changes
  /\ errors' = w.errors
  /\ wsState' = handleStateChange(w)

NoNotes == stateChanges' = <<>> /\ errors' = <<>> /\ wsState' = wsState

TimeVars == <<now, rotationDue, overlapDue>>

\* start(config), up to its await; the rest of start() runs as a microtask
\* of the same task (startResume).  Each session owns one rotator: start()
\* is called once, on a fresh one.
start(nc, ns) ==
  /\ Idle
  /\ NumClients(clients) = 0
  /\ CanConstruct(nc, ns)
  /\ LET c == NextClient
         w == connect(NewClient(World, c, "primary", now), c, Cfg)
     IN /\ clients' = w.cl
        /\ sockets' = w.so
        /\ Notes(w)
        /\ primaryClient' = c
  /\ currentConfig' = Cfg
  /\ task' = [IdleTask EXCEPT !.k = "start", !.c = NextClient]
  /\ Quiet
  /\ UNCHANGED <<PageVars, secondaryClient, rotationTimer, overlapTimer, nextFrame,
                 inflight, stopped, TimeVars>>

scheduleRotationFromRotationStart(t) ==
  /\ rotationTimer' = TRUE
  /\ rotationDue' = IF t >= OVERLAP_DURATION
                      THEN t - OVERLAP_DURATION + ROTATION_INTERVAL
                      ELSE t + ROTATION_INTERVAL

\* setTimeout(rotate, ROTATION_INTERVAL) in a callback running at time t
scheduleRotation(t) ==
  /\ rotationTimer' = TRUE
  /\ rotationDue' = t + ROTATION_INTERVAL

\* start(config), after its await
startResume ==
  /\ task.k = "start"
  /\ IF clients[task.c].connectPromise = "resolved"
       THEN scheduleRotation(now)
       ELSE UNCHANGED <<rotationTimer, rotationDue>>
  /\ task' = IdleTask
  /\ Quiet
  /\ NoNotes
  /\ UNCHANGED <<PageVars, primaryClient, secondaryClient, overlapTimer, currentConfig,
                 clients, sockets, nextFrame, inflight, stopped, now, overlapDue>>

\* stop() of a started rotator, called from a task of the caller's own
stop ==
  /\ Idle
  /\ NumClients(clients) > 0
  /\ rotationTimer' = FALSE
  /\ rotationDue' = 0
  /\ LET w1 == IF primaryClient # Null THEN close(World, primaryClient) ELSE World
         w2 == IF secondaryClient # Null THEN close(w1, secondaryClient) ELSE w1
     IN /\ clients' = w2.cl
        /\ sockets' = w2.so
        /\ Notes(w2)
  /\ primaryClient' = Null
  /\ secondaryClient' = Null
  /\ stopped' = TRUE
  /\ Quiet
  /\ UNCHANGED <<PageVars, overlapTimer, currentConfig, nextFrame, inflight, task,
                 now, overlapDue>>

rotatorSendAudioPrimaryOnly(f) ==
  LET w2 == IF primaryClient # Null THEN sendAudio(World, primaryClient, f) ELSE World
  IN /\ clients' = w2.cl
     /\ sockets' = w2.so
     /\ audioCalls' = w2.calls

\* SessionRotator.sendAudio(audioData)
rotatorSendAudio(f) ==
  LET w1 == IF secondaryClient # Null THEN sendAudio(World, secondaryClient, f) ELSE World
      w2 == IF primaryClient # Null /\ ~w1.thrown THEN sendAudio(w1, primaryClient, f)
            ELSE w1
  IN /\ clients' = w2.cl
     /\ sockets' = w2.so
     /\ audioCalls' = w2.calls

\* the audio producer, started with the session, submits its next frame
SubmitAudio ==
  /\ Idle
  /\ NumClients(clients) > 0
  /\ nextFrame <= MaxFrames
  /\ rotatorSendAudio(nextFrame)
  /\ nextFrame' = nextFrame + 1
  /\ forwarded' = <<>>
  /\ received' = NoMessage
  /\ flushed' = <<>>
  /\ NoNotes
  /\ UNCHANGED <<PageVars, primaryClient, secondaryClient, rotationTimer, overlapTimer,
                 currentConfig, inflight, stopped, task, TimeVars>>

\* the rotation timer fires: rotate().  The promise of connect() is settled
\* when connect() returns, so the code after the await runs as a microtask
\* of the same task: on a resolved promise the overlap timeout is armed, on a
\* rejected one the catch block runs.  The overlap timeout (10 s) always
\* fires before a pending rotation timer (55 min) armed after it, hence the
\* guard on overlapTimer.
rotate(nc, ns) ==
  /\ Idle
  /\ rotationTimer
  /\ OVERLAP_DURATION < ROTATION_INTERVAL => ~overlapTimer
  /\ now' = rotationDue
  /\ IF currentConfig = NoConfig
       THEN /\ rotationTimer' = FALSE
            /\ rotationDue' = 0
            /\ NoNotes
            /\ UNCHANGED <<secondaryClient, clients, sockets, overlapTimer,
                           overlapDue>>
       ELSE /\ CanConstruct(nc, ns)
            /\ LET c == NextClient
                   w == connect(NewClient(World, c, "secondary", now'), c,
                                currentConfig)
               IN IF w.cl[c].connectPromise = "resolved"
                    THEN /\ clients' = w.cl
                         /\ sockets' = w.so
                         /\ Notes(w)
                         /\ secondaryClient' = c
                         /\ overlapTimer' = TRUE
                         /\ overlapDue' = now' + OVERLAP_DURATION
                         /\ rotationTimer' = FALSE
                         /\ rotationDue' = 0
                    ELSE LET w1 == close(w, c) IN
                         /\ clients' = w1.cl
                         /\ sockets' = w1.so
                         /\ Notes(w1)
                         /\ secondaryClient' = Null
                         /\ scheduleRotation(now')
                         /\ UNCHANGED <<overlapTimer, overlapDue>>
  /\ Quiet
  /\ UNCHANGED <<PageVars, primaryClient, currentConfig, nextFrame, inflight, stopped, task>>

\* the overlap timeout of rotate() fires
overlapTimeout ==
  /\ Idle
  /\ overlapTimer
  /\ overlapTimer' = FALSE
  /\ now' = overlapDue
  /\ overlapDue' = 0
  /\ LET w == IF primaryClient # Null THEN close(World, primaryClient) ELSE World
     IN /\ clients' = w.cl
        /\ sockets' = w.so
        /\ Notes(w)
  /\ primaryClient' = secondaryClient
  /\ secondaryClient' = Null
  /\ scheduleRotation(now')
  /\ Quiet
  /\ UNCHANGED <<PageVars, currentConfig, nextFrame, inflight, stopped, task>>

\* ------------------------------------------- socket events and timers
RotatorVars == <<primaryClient, secondaryClient, rotationTimer, overlapTimer,
                 currentConfig, stopped, now, rotationDue, overlapDue>>

\* the socket's open event
SocketOpen(s) ==
  /\ Idle
  /\ sockets[s].readyState = "connecting"
  /\ LET c == sockets[s].owner
         w == onopen([World EXCEPT !.so[s].readyState = "open",
                                   !.cl[c].delays = <<>>], c)
     IN /\ clients' = w.cl
        /\ sockets' = w.so
        /\ flushed' = w.flushed
        /\ Notes(w)
  /\ forwarded' = <<>>
  /\ audioCalls' = <<>>
  /\ received' = NoMessage
  /\ UNCHANGED <<PageVars, RotatorVars, nextFrame, inflight, task>>

\* the connection fails (or an aborted connect ends): the task fires the
\* error event and then the close event with code 1006
SocketFail(s) ==
  /\ Idle
  /\ sockets[s].readyState \in {"connecting", "open", "closing", "aborting"}
  /\ LET w == onerror([World EXCEPT !.so[s].readyState = "closed"], sockets[s].owner)
     IN /\ clients' = w.cl
        /\ sockets' = w.so
        /\ Notes(w)
  /\ task' = [IdleTask EXCEPT !.k = "close", !.s = s, !.code = AbnormalClosure]
  /\ Quiet
  /\ UNCHANGED <<PageVars, RotatorVars, nextFrame, inflight>>

\* the close event that follows the error event in the same task
SocketCloseEvent ==
  /\ task.k = "close"
  /\ LET w == onclose(World, sockets[task.s].owner, task.code)
     IN /\ clients' = w.cl
        /\ sockets' = w.so
        /\ Notes(w)
  /\ task' = IdleTask
  /\ Quiet
  /\ UNCHANGED <<PageVars, RotatorVars, nextFrame, inflight>>

\* the socket closes without an error event: the closing handshake ends
\* (code 1000) or the peer goes away without a close frame (code 1006)
SocketClose(s, code) ==
  /\ Idle
  /\ sockets[s].readyState \in {"open", "closing"}
  /\ LET w == onclose([World EXCEPT !.so[s].readyState = "closed"],
                      sockets[s].owner, code)
     IN /\ clients' = w.cl
        /\ sockets' = w.so
        /\ Notes(w)
  /\ Quiet
  /\ UNCHANGED <<PageVars, RotatorVars, nextFrame, inflight, task>>

\* a timeout armed by scheduleReconnect fires (the one the field holds,
\* unless another one is pending as well)
reconnectTimeoutFire(c, ns) ==
  /\ Idle
  /\ clients[c].timers > 0
  /\ LET w0 == [World EXCEPT !.cl[c].timers = @ - 1,
                             !.cl[c].reconnectTimeout = @ /\ clients[c].timers > 1]
         w == IF w0.cl[c].config # NoConfig THEN connect(w0, c, w0.cl[c].config) ELSE w0
     IN /\ (w0.cl[c].config # NoConfig /\ ConnectOpensSocket(w0, c))
              => NumSockets(sockets) < ns
        /\ clients' = w.cl
        /\ sockets' = w.so
        /\ Notes(w)
  /\ Quiet
  /\ UNCHANGED <<PageVars, RotatorVars, nextFrame, inflight, task>>

\* ws.onmessage with a text (or ArrayBuffer) frame: decoded synchronously
onmessageText(s) ==
  /\ Idle
  /\ sockets[s].readyState = "open"
  /\ received' = [k |-> "text", s |-> s, m |-> PlainMsg]
  /\ forwarded' = messageHandler(sockets[s].owner)
  /\ audioCalls' = <<>>
  /\ flushed' = <<>>
  /\ NoNotes
  /\ UNCHANGED <<PageVars, RotatorVars, clients, sockets, nextFrame, inflight, task>>

\* ws.onmessage with a Blob frame, up to its await of event.data.text()
onmessageBlob(s) ==
  /\ Idle
  /\ sockets[s].readyState = "open"
  /\ s \notin inflight
  /\ Cardinality(inflight) < MaxInflight
  /\ inflight' = inflight \cup {s}
  /\ forwarded' = <<>>
  /\ audioCalls' = <<>>
  /\ flushed' = <<>>
  /\ received' = [k |-> "blob", s |-> s, m |-> PlainMsg]
  /\ NoNotes
  /\ UNCHANGED <<PageVars, RotatorVars, clients, sockets, nextFrame, task>>

\* ws.onmessage with a Blob frame, after its await
onmessageResume(s) ==
  /\ Idle
  /\ s \in inflight
  /\ inflight' = inflight \ {s}
  /\ received' = [k |-> "decoded", s |-> s, m |-> PlainMsg]
  /\ forwarded' = messageHandler(sockets[s].owner)
  /\ audioCalls' = <<>>
  /\ flushed' = <<>>
  /\ NoNotes
  /\ UNCHANGED <<PageVars, RotatorVars, clients, sockets, nextFrame, task>>

Run(nc, ns) ==
  \/ start(nc, ns)
  \/ startResume
  \/ stop
  \/ SubmitAudio
  \/ rotate(nc, ns)
  \/ overlapTimeout
  \/ \E s \in SocketIds : SocketOpen(s)
  \/ \E s \in SocketIds : SocketFail(s)
  \/ SocketCloseEvent
  \/ \E s \in SocketIds : SocketClose(s, NormalClosure)
  \/ \E s \in SocketIds : SocketClose(s, AbnormalClosure)
  \/ \E c \in ClientIds : reconnectTimeoutFire(c, ns)
  \/ \E s \in SocketIds : onmessageText(s)

\* upstream sends its JSON messages as text frames
Next == Run(MaxClients, MaxSockets)

Spec == Init /\ [][Next]_vars

\* the same program in a session that lasts into a second rotation
NextLong == Run(LongClients, LongSockets)

SpecLong == Init /\ [][NextLong]_vars

\* ------------------------------------------- a Connection of a caller's own
\* The page owns one SonioxWSClient directly (src/app/page.tsx): it constructs
\* it with its handlers and connects it once, then submits audio, finalizes
\* and closes it, each call in a task of its own.
TheClient == 1

callerConnect(ns) ==
  /\ Idle
  /\ NumClients(clients) = 0
  /\ NumSockets(sockets) < ns
  /\ LET w == connect(NewClient(World, TheClient, "direct", now), TheClient, Cfg)
     IN /\ clients' = w.cl
        /\ sockets' = w.so
        /\ Notes(w)
  /\ Quiet
  /\ UNCHANGED <<PageVars, RotatorVars, nextFrame, inflight, task>>

callerSendAudio ==
  /\ Idle
  /\ clients[TheClient].role = "direct"
  /\ nextFrame <= MaxFrames
  /\ LET w == sendAudio(World, TheClient, nextFrame)
     IN /\ clients' = w.cl
        /\ sockets' = w.so
        /\ audioCalls' = w.calls
        /\ Notes(w)
  /\ nextFrame' = nextFrame + 1
  /\ forwarded' = <<>>
  /\ flushed' = <<>>
  /\ received' = NoMessage
  /\ UNCHANGED <<PageVars, RotatorVars, inflight, task>>

callerFinalize ==
  /\ Idle
  /\ clients[TheClient].role = "direct"
  /\ LET w == finalize(World, TheClient)
     IN /\ clients' = w.cl
        /\ sockets' = w.so
        /\ Notes(w)
  /\ Quiet
  /\ UNCHANGED <<PageVars, RotatorVars, nextFrame, inflight, task>>

callerClose ==
  /\ Idle
  /\ clients[TheClient].role = "direct"
  /\ clients[TheClient].closes < MaxCloses
  /\ LET w == close(World, TheClient)
     IN /\ clients' = w.cl
        /\ sockets' = w.so
        /\ Notes(w)
  /\ Quiet
  /\ UNCHANGED <<PageVars, RotatorVars, nextFrame, inflight, task>>

onmessageErrorClosing(s) ==
  /\ Idle
  /\ sockets[s].readyState = "open"
  /\ ~sockets[s].errored
  /\ LET w == close(handleError([World EXCEPT !.so[s].errored = TRUE],
                                sockets[s].owner), sockets[s].owner)
     IN /\ Notes(w)
        /\ clients' = w.cl
        /\ sockets' = w.so
  /\ received' = [k |-> "text", s |-> s, m |-> ErrorMsg]
  /\ forwarded' = messageHandler(sockets[s].owner)
  /\ audioCalls' = <<>>
  /\ flushed' = <<>>
  /\ UNCHANGED <<PageVars, RotatorVars, nextFrame, inflight, task>>

\* ws.onmessage with a text frame that carries an error reported by upstream
onmessageError(s) ==
  /\ Idle
  /\ sockets[s].readyState = "open"
  /\ ~sockets[s].errored
  /\ LET w == handleError(World, sockets[s].owner)
     IN Notes(w)
  /\ sockets' = [sockets EXCEPT ![s].errored = TRUE]
  /\ received' = [k |-> "text", s |-> s, m |-> ErrorMsg]
  /\ forwarded' = messageHandler(sockets[s].owner)
  /\ audioCalls' = <<>>
  /\ flushed' = <<>>
  /\ UNCHANGED <<PageVars, RotatorVars, clients, nextFrame, inflight, task>>

onmessageUnparseableReported(s) ==
  /\ Idle
  /\ sockets[s].readyState = "open"
  /\ received' = [k |-> "garbage", s |-> s, m |-> PlainMsg]
  /\ LET w == handleError(World, sockets[s].owner)
     IN Notes(w)
  /\ forwarded' = <<>>
  /\ audioCalls' = <<>>
  /\ flushed' = <<>>
  /\ UNCHANGED <<PageVars, RotatorVars, clients, sockets, nextFrame, inflight,
                 task>>

\* ws.onmessage with a text frame that is not JSON: JSON.parse throws inside
\* the try block and the catch block logs the failure
onmessageUnparseable(s) ==
  /\ Idle
  /\ sockets[s].readyState = "open"
  /\ received' = [k |-> "garbage", s |-> s, m |-> PlainMsg]
  /\ NoNotes
  /\ forwarded' = <<>>
  /\ audioCalls' = <<>>
  /\ flushed' = <<>>
  /\ UNCHANGED <<PageVars, RotatorVars, clients, sockets, nextFrame, inflight,
                 task>>

Conn(ns) ==
  \/ callerConnect(ns)
  \/ callerSendAudio
  \/ callerFinalize
  \/ callerClose
  \/ \E s \in SocketIds : SocketOpen(s)
  \/ \E s \in SocketIds : SocketFail(s)
  \/ SocketCloseEvent
  \/ \E s \in SocketIds : SocketClose(s, NormalClosure)
  \/ \E s \in SocketIds : SocketClose(s, AbnormalClosure)
  \/ \E c \in ClientIds : reconnectTimeoutFire(c, ns)
  \/ \E s \in SocketIds : onmessageText(s)
  \/ \E s \in SocketIds : onmessageError(s)
  \/ \E s \in SocketIds : onmessageUnparseable(s)

NextConn == Conn(ConnSockets)

SpecConn == Init /\ [][NextConn]_vars

\* a Connection of a caller's own during an outage: its sockets fail or
\* are closed by the peer again and again
Outage(ns) ==
  \/ callerConnect(ns)
  \/ \E s \in SocketIds : SocketOpen(s)
  \/ \E s \in SocketIds : SocketFail(s)
  \/ SocketCloseEvent
  \/ \E s \in SocketIds : SocketClose(s, NormalClosure)
  \/ \E s \in SocketIds : SocketClose(s, AbnormalClosure)
  \/ \E c \in ClientIds : reconnectTimeoutFire(c, ns)

NextOutage == Outage(OutageSockets)

SpecOutage == Init /\ [][NextOutage]_vars

\* the same Connection with the event loop's guarantees: a timeout that is
\* pending fires, and the close event that follows an error event is fired
SpecOutageLive ==
  /\ SpecOutage
  /\ WF_vars(\E c \in ClientIds : reconnectTimeoutFire(c, OutageSockets))
  /\ WF_vars(SocketCloseEvent)

\* connect(config) called again by the caller of the instance, in a state
\* the precondition of connect() admits
callerConnectAgain(ns) ==
  /\ Idle
  /\ clients[TheClient].role = "direct"
  /\ clients[TheClient].state \in {"IDLE", "CLOSED"}
  /\ NumSockets(sockets) < ns
  /\ LET w == connect(World, TheClient, Cfg)
     IN /\ clients' = w.cl
        /\ sockets' = w.so
        /\ Notes(w)
  /\ Quiet
  /\ UNCHANGED <<PageVars, RotatorVars, nextFrame, inflight, task>>

\* a Connection of a caller that connects, finalizes, closes and connects
\* it again
Reuse(ns) ==
  \/ callerConnect(ns)
  \/ callerConnectAgain(ns)
  \/ callerFinalize
  \/ callerClose
  \/ \E s \in SocketIds : SocketOpen(s)
  \/ \E s \in SocketIds : SocketFail(s)
  \/ SocketCloseEvent
  \/ \E s \in SocketIds : SocketClose(s, NormalClosure)
  \/ \E s \in SocketIds : SocketClose(s, AbnormalClosure)
  \/ \E c \in ClientIds : reconnectTimeoutFire(c, ns)

NextReuse == Reuse(ReuseSockets)

SpecReuse == Init /\ [][NextReuse]_vars

\* the same program with an upstream that also sends Blob frames
NextBlob ==
  \/ Next
  \/ \E s \in SocketIds : onmessageBlob(s)
  \/ \E s \in SocketIds : onmessageResume(s)

SpecBlob == Init /\ [][NextBlob]_vars

\* a session in which every socket that is being connected opens: sockets
\* are only lost once they are open (or closing)
Ageing(nc, ns) ==
  \/ start(nc, ns)
  \/ startResume
  \/ rotate(nc, ns)
  \/ overlapTimeout
  \/ \E s \in SocketIds : SocketOpen(s)
  \/ \E s \in SocketIds : SocketClose(s, NormalClosure)
  \/ \E s \in SocketIds : SocketClose(s, AbnormalClosure)
  \/ \E c \in ClientIds : reconnectTimeoutFire(c, ns)

NextAge == Ageing(AgeClients, AgeSockets)

SpecAge == Init /\ [][NextAge]_vars


\* ------------------------------------------------- the Page (page.tsx)
\* The Page component owns the Connection it constructs in handleStart.  Its
\* refs and texts are the page variables; the buttons that call handleStart
\* and handleStop are enabled by wsState.  The page stays mounted, the user
\* stays logged in and the microphone is granted.

\* the page as a task finds it
Page ==
  [wsClientRef |-> wsClientRef, finalizeTimeoutRef |-> finalizeTimeoutRef,
   awaitingFinalizeRef |-> awaitingFinalizeRef,
   originalFinalText |-> originalFinalText,
   translatedFinalText |-> translatedFinalText,
   originalInterim |-> originalInterim,
   translatedInterim |-> translatedInterim,
   w |-> World]

\* tokenText.trim(), on the token texts upstream sends
trim(text) == IF text = PaddedSentinel THEN Sentinel ELSE text

\* token.is_final ?? token.final ?? false
isFinal(token) ==
  IF token.is_final # "absent" THEN token.is_final = "true"
  ELSE IF token.final # "absent" THEN token.final = "true"
  ELSE FALSE

\* handleMessage, the branch of a message with finished === true
finishedBranch(p) ==
  LET client == p.wsClientRef IN
  [p EXCEPT !.finalizeTimeoutRef = Null,
            !.awaitingFinalizeRef = FALSE,
            !.originalInterim = <<>>,
            !.translatedInterim = <<>>,
            !.w = IF client # Null THEN close(@, client) ELSE @,
            !.wsClientRef = Null]

\* handleMessage, the branch of a final token whose text is the sentinel
sentinelBranch(p) ==
  LET client == p.wsClientRef IN
  [p EXCEPT !.finalizeTimeoutRef = Null,
            !.awaitingFinalizeRef = FALSE,
            !.originalInterim = <<>>,
            !.translatedInterim = <<>>,
            !.w = IF client # Null THEN close(@, client) ELSE @,
            !.wsClientRef = Null]

\* the chunks of handleMessage before its token loop
NoChunks(p) ==
  [p |-> p, originalFinalChunk |-> <<>>, translatedFinalChunk |-> <<>>,
   originalNonFinalText |-> <<>>, translatedNonFinalText |-> <<>>]

\* handleMessage, the loop over message.tokens
RECURSIVE tokenLoop(_, _)
tokenLoop(a, tokens) ==
  IF tokens = <<>> THEN a
  ELSE LET token == Head(tokens)
           after ==
             IF trim(token.text) = Sentinel
               THEN IF isFinal(token) THEN [a EXCEPT !.p = sentinelBranch(@)]
                    ELSE a
             ELSE IF token.translation_status = "translation"
               THEN IF isFinal(token)
                      THEN [a EXCEPT !.translatedFinalChunk = Append(@, token.text)]
                      ELSE [a EXCEPT !.translatedNonFinalText = Append(@, token.text)]
             ELSE IF isFinal(token)
               THEN [a EXCEPT !.originalFinalChunk = Append(@, token.text)]
               ELSE [a EXCEPT !.originalNonFinalText = Append(@, token.text)]
       IN tokenLoop(after, Tail(tokens))

\* handleMessage(message) of the closure that captured the interim texts seen
handleMessage(p, message, seen) ==
  IF message.finished THEN finishedBranch(p)
  ELSE IF message.tokens # <<>>
    THEN LET a == tokenLoop(NoChunks(p), message.tokens) IN
         [a.p EXCEPT
            !.originalFinalText = @ \o a.originalFinalChunk,
            !.translatedFinalText = @ \o a.translatedFinalChunk,
            !.originalInterim =
               IF a.originalNonFinalText # seen.originalInterim
                 THEN a.originalNonFinalText ELSE @,
            !.translatedInterim =
               IF a.translatedNonFinalText # seen.translatedInterim
                 THEN a.translatedNonFinalText ELSE @]
  ELSE p

\* the refs and texts a task leaves in p
PageIs(p) ==
  /\ wsClientRef' = p.wsClientRef
  /\ finalizeTimeoutRef' = p.finalizeTimeoutRef
  /\ awaitingFinalizeRef' = p.awaitingFinalizeRef
  /\ originalFinalText' = p.originalFinalText
  /\ translatedFinalText' = p.translatedFinalText
  /\ originalInterim' = p.originalInterim
  /\ translatedInterim' = p.translatedInterim
  /\ clients' = p.w.cl
  /\ sockets' = p.w.so
  /\ Notes(p.w)

\* handleStart, up to its await of the fetch of a temporary key; the
\* closures of this call are those of the render the click happened in
handleStart(nc) ==
  /\ Idle
  /\ wsState # "STREAMING"
  /\ NumClients(clients) + Len(fetching) < nc
  /\ originalFinalText' = <<>>
  /\ translatedFinalText' = <<>>
  /\ originalInterim' = <<>>
  /\ translatedInterim' = <<>>
  /\ awaitingFinalizeRef' = FALSE
  /\ finalizeTimeoutRef' = Null
  /\ fetching' = Append(fetching, [originalInterim |-> originalInterim,
                                   translatedInterim |-> translatedInterim])
  /\ Quiet
  /\ NoNotes
  /\ UNCHANGED <<AuthVars, RotatorVars, clients, sockets, nextFrame, inflight, task,
                 wsClientRef, audioRecorderRef, recorders, closures>>

Without(q, i) == SubSeq(q, 1, i - 1) \o SubSeq(q, i + 1, Len(q))

\* handleStart after its fetch returned a key: the client is constructed
\* and connected; connect() has settled when it returns, so the recorder is
\* constructed and started in the same task
handleStartResume(i, ns) ==
  /\ Idle
  /\ i \in DOMAIN fetching
  /\ NumSockets(sockets) < ns
  /\ LET c == NextClient
         w == connect(NewClient(World, c, "page", now), c,
                      [Cfg EXCEPT !.api_key = c])
     IN /\ clients' = w.cl
        /\ sockets' = w.so
        /\ Notes(w)
        /\ wsClientRef' = c
        /\ closures' = [closures EXCEPT ![c] = fetching[i]]
  /\ fetching' = Without(fetching, i)
  /\ audioRecorderRef' = TRUE
  /\ recorders' = recorders + 1
  /\ Quiet
  /\ UNCHANGED <<AuthVars, RotatorVars, nextFrame, inflight, task, finalizeTimeoutRef,
                 awaitingFinalizeRef, TextVars>>

\* handleStart after its fetch failed: it returns (401) or throws into its
\* catch block; both only set the error the page shows
handleStartFail(i) ==
  /\ Idle
  /\ i \in DOMAIN fetching
  /\ fetching' = Without(fetching, i)
  /\ Quiet
  /\ NoNotes
  /\ UNCHANGED <<AuthVars, RotatorVars, clients, sockets, nextFrame, inflight, task,
                 wsClientRef, audioRecorderRef, recorders, finalizeTimeoutRef,
                 awaitingFinalizeRef, TextVars, closures>>

handleStop ==
  /\ Idle
  /\ wsState = "STREAMING"
  /\ audioRecorderRef' = FALSE
  /\ recorders' = IF audioRecorderRef THEN recorders - 1 ELSE recorders
  /\ LET client == wsClientRef IN
     IF client = Null
       THEN /\ finalizeTimeoutRef' = Null
            /\ NoNotes
            /\ UNCHANGED <<clients, sockets, wsClientRef, awaitingFinalizeRef,
                           originalInterim, translatedInterim>>
     ELSE IF clients[client].state \in {"STREAMING", "CONNECTED"}
       THEN LET w == finalize(World, client) IN
            /\ awaitingFinalizeRef' = TRUE
            /\ clients' = w.cl
            /\ sockets' = w.so
            /\ Notes(w)
            /\ finalizeTimeoutRef' = client
            /\ UNCHANGED <<wsClientRef, originalInterim, translatedInterim>>
       ELSE LET w == close(World, client) IN
            /\ finalizeTimeoutRef' = Null
            /\ clients' = w.cl
            /\ sockets' = w.so
            /\ Notes(w)
            /\ wsClientRef' = Null
            /\ originalInterim' = <<>>
            /\ translatedInterim' = <<>>
            /\ UNCHANGED awaitingFinalizeRef
  /\ Quiet
  /\ UNCHANGED <<AuthVars, RotatorVars, nextFrame, inflight, task, originalFinalText,
                 translatedFinalText, fetching, closures>>

\* the force-close timeout of handleStop fires
finalizeTimeoutFire ==
  /\ Idle
  /\ finalizeTimeoutRef # Null
  /\ LET client == finalizeTimeoutRef
         w == close(World, client)
     IN /\ clients' = w.cl
        /\ sockets' = w.so
        /\ Notes(w)
        /\ wsClientRef' = IF wsClientRef = client THEN Null ELSE wsClientRef
  /\ awaitingFinalizeRef' = FALSE
  /\ originalInterim' = <<>>
  /\ translatedInterim' = <<>>
  /\ finalizeTimeoutRef' = Null
  /\ Quiet
  /\ UNCHANGED <<AuthVars, RotatorVars, nextFrame, inflight, task, audioRecorderRef,
                 recorders, originalFinalText, translatedFinalText, fetching,
                 closures>>

\* a recording AudioRecorder hands its next frame to the callback of
\* handleStart: wsClientRef.current?.sendAudio(audioData)
recorderData ==
  /\ Idle
  /\ recorders > 0
  /\ nextFrame <= PageFrames
  /\ LET w == IF wsClientRef # Null THEN sendAudio(World, wsClientRef, nextFrame)
              ELSE World
     IN /\ clients' = w.cl
        /\ sockets' = w.so
        /\ audioCalls' = w.calls
        /\ Notes(w)
  /\ nextFrame' = nextFrame + 1
  /\ forwarded' = <<>>
  /\ flushed' = <<>>
  /\ received' = NoMessage
  /\ UNCHANGED <<PageVars, RotatorVars, inflight, task>>

\* ws.onmessage of a client of the page with a text frame that parses to
\* message: the error handler on an error field, then handleMessage
onmessage(s, message) ==
  /\ Idle
  /\ sockets[s].readyState = "open"
  /\ clients[sockets[s].owner].role = "page"
  /\ LET c == sockets[s].owner
         w0 == [World EXCEPT !.so[s].errored = @ \/ message.error]
         w1 == IF message.error THEN handleError(w0, c) ELSE w0
     IN PageIs(handleMessage([Page EXCEPT !.w = w1], message, closures[c]))
  /\ received' = [k |-> "text", s |-> s, m |-> message]
  /\ forwarded' = <<sockets[s].owner>>
  /\ audioCalls' = <<>>
  /\ flushed' = <<>>
  /\ UNCHANGED <<AuthVars, RotatorVars, nextFrame, inflight, task, audioRecorderRef,
                 recorders, fetching, closures>>

\* the page, its Connections and an upstream that sends messages of msgs
PageRun(nc, ns, msgs) ==
  \/ handleStart(nc)
  \/ \E i \in 1..nc : handleStartResume(i, ns)
  \/ \E i \in 1..nc : handleStartFail(i)
  \/ handleStop
  \/ finalizeTimeoutFire
  \/ recorderData
  \/ \E s \in SocketIds : SocketOpen(s)
  \/ \E s \in SocketIds : SocketFail(s)
  \/ SocketCloseEvent
  \/ \E s \in SocketIds : SocketClose(s, NormalClosure)
  \/ \E s \in SocketIds : SocketClose(s, AbnormalClosure)
  \/ \E c \in ClientIds : reconnectTimeoutFire(c, ns)
  \/ \E s \in SocketIds : \E message \in msgs : onmessage(s, message)

\* tokens and messages of a session that ends
SentinelToken == Tok(Sentinel, "true", "absent", "original", 1)
InterimToken == Tok("a", "false", "absent", "original", 1)

EndingMsgs ==
  {FinishedMsg, ErrorMsg,
   ResultMsg(<<InterimToken>>),
   ResultMsg(<<SentinelToken>>),
   ResultMsg(<<[SentinelToken EXCEPT !.text = PaddedSentinel]>>),
   ResultMsg(<<[SentinelToken EXCEPT !.is_final = "false"]>>),
   ResultMsg(<<SentinelToken, InterimToken>>)}

NextPage == PageRun(PageClients, PageSockets, EndingMsgs)

SpecPage == Init /\ [][NextPage]_vars


\* ------------------------------------------- the page's token accumulation
\* The tokens of a streaming session.  Each has a text of its own, so that a
\* text on the page tells which token it came from.  A token is flagged with
\* is_final or, in older samples, with final; speaker 0 is a speaker that
\* upstream has not assigned yet.
SessionTokens ==
  {Tok("a", "true", "absent", "original", 1),
   Tok("b", "false", "absent", "original", 1),
   Tok("l", "absent", "true", "original", 1),
   Tok("x", "true", "absent", "translation", 1),
   Tok("y", "false", "absent", "translation", 1),
   Tok("p", "true", "absent", "original", 0),
   Tok("q", "false", "absent", "original", 0)}

RECURSIVE TokenSeqs(_)
TokenSeqs(n) ==
  IF n = 0 THEN {<<>>}
  ELSE LET shorter == TokenSeqs(n - 1) IN
       shorter \cup {Append(q, t) : q \in {r \in shorter : Len(r) = n - 1},
                                    t \in SessionTokens}

\* the result messages of up to MaxTokens tokens
TokenMsgs == {ResultMsg(q) : q \in TokenSeqs(MaxTokens) \ {<<>>}}

\* a page that streams and receives result messages until its final texts
\* hold MaxText tokens
NextTokens ==
  \/ handleStart(TokenClients)
  \/ \E i \in 1..TokenClients : handleStartResume(i, TokenClients)
  \/ \E s \in SocketIds : SocketOpen(s)
  \/ /\ Len(originalFinalText) + Len(translatedFinalText) < MaxText
     /\ \E s \in SocketIds : \E message \in TokenMsgs : onmessage(s, message)

SpecTokens == Init /\ [][NextTokens]_vars


\* ------------------------------------------------- the login session
\* src/unnamed/part_003 is lib/auth/session.ts.  The browser keeps the
\* cookies the routes set and sends them with every request; whoever holds
\* the browser can also edit them.

\* what verifySessionToken returns: the payload, or NoSession for null
NoSession == [issuedAt |-> 0 - 1]

\* createSessionToken() at time t: the encoded payload and its signature
createSessionToken(t) ==
  [parts |-> 2, typed |-> TRUE, issuedAt |-> t, key |-> Secret]

\* verifySessionToken(token) at time t
verifySessionToken(token, t) ==
  IF token.parts = 0 THEN NoSession
  ELSE IF token.parts < 2 THEN NoSession
  ELSE IF token.key # Secret THEN NoSession
  ELSE IF ~token.typed THEN NoSession
  ELSE IF t - token.issuedAt > SESSION_MAX_AGE_SECONDS * 1000 THEN NoSession
  ELSE [issuedAt |-> token.issuedAt]

\* POST /api/login with the two answers
login(correct) ==
  /\ Idle
  /\ IF correct
       THEN /\ jar' = [jar EXCEPT !.rt_auth = createSessionToken(clock)]
            /\ response' = [NoResponse EXCEPT !.route = "login", !.status = 200]
       ELSE /\ jar' = [jar EXCEPT !.rt_auth = NoToken]
            /\ response' = [NoResponse EXCEPT !.route = "login", !.status = 401]
  /\ UNCHANGED <<RotatorVars, clients, sockets, nextFrame, inflight, forwarded,
                 audioCalls, flushed, task, stateChanges, errors, received,
                 wsState, wsClientRef, audioRecorderRef, recorders,
                 finalizeTimeoutRef, awaitingFinalizeRef, TextVars, fetching,
                 closures, clock>>

\* GET /api/session
sessionGET ==
  /\ Idle
  /\ IF verifySessionToken(jar.rt_auth, clock) = NoSession
       THEN /\ jar' = [jar EXCEPT !.rt_auth = NoToken]
            /\ response' = [NoResponse EXCEPT !.route = "session", !.status = 401]
       ELSE /\ jar' = jar
            /\ response' = [NoResponse EXCEPT !.route = "session", !.status = 200]
  /\ UNCHANGED <<RotatorVars, clients, sockets, nextFrame, inflight, forwarded,
                 audioCalls, flushed, task, stateChanges, errors, received,
                 wsState, wsClientRef, audioRecorderRef, recorders,
                 finalizeTimeoutRef, awaitingFinalizeRef, TextVars, fetching,
                 closures, clock>>

\* POST /api/smooth-text with a body whose text field is text ("": no text);
\* smoothed: smoothTranscriptionText was called (it catches its own errors)
smoothText(text) ==
  /\ Idle
  /\ response' =
       IF jar.session = NoCookie \/ jar.session # "authenticated"
         THEN [NoResponse EXCEPT !.route = "smooth-text", !.status = 401]
       ELSE IF text = ""
         THEN [NoResponse EXCEPT !.route = "smooth-text", !.status = 400]
       ELSE [route |-> "smooth-text", status |-> 200, smoothed |-> TRUE]
  /\ UNCHANGED <<RotatorVars, clients, sockets, nextFrame, inflight, forwarded,
                 audioCalls, flushed, task, stateChanges, errors, received,
                 wsState, wsClientRef, audioRecorderRef, recorders,
                 finalizeTimeoutRef, awaitingFinalizeRef, TextVars, fetching,
                 closures, clock, jar>>

\* the cookie values somebody who does not know the secret can write
Forgeable ==
  {NoToken,
   [parts |-> 1, typed |-> FALSE, issuedAt |-> 0, key |-> "none"],
   [parts |-> 2, typed |-> TRUE, issuedAt |-> clock, key |-> Guess]}

\* the holder of the browser edits its cookies
editCookies(name, token, value) ==
  /\ Idle
  /\ jar' = IF name = SESSION_COOKIE_NAME THEN [jar EXCEPT !.rt_auth = token]
            ELSE [jar EXCEPT !.session = value]
  /\ jar' # jar
  /\ response' = NoResponse
  /\ UNCHANGED <<RotatorVars, clients, sockets, nextFrame, inflight, forwarded,
                 audioCalls, flushed, task, stateChanges, errors, received,
                 wsState, wsClientRef, audioRecorderRef, recorders,
                 finalizeTimeoutRef, awaitingFinalizeRef, TextVars, fetching,
                 closures, clock>>

\* time passes on the server
tick(n) ==
  /\ Idle
  /\ clock < n * TickMs
  /\ clock' = clock + TickMs
  /\ response' = NoResponse
  /\ UNCHANGED <<RotatorVars, clients, sockets, nextFrame, inflight, forwarded,
                 audioCalls, flushed, task, stateChanges, errors, received,
                 wsState, wsClientRef, audioRecorderRef, recorders,
                 finalizeTimeoutRef, awaitingFinalizeRef, TextVars, fetching,
                 closures, jar>>

Auth(n) ==
  \/ \E correct \in BOOLEAN : login(correct)
  \/ sessionGET
  \/ \E text \in {"", "text"} : smoothText(text)
  \/ \E token \in Forgeable : editCookies(SESSION_COOKIE_NAME, token, NoCookie)
  \/ \E value \in {NoCookie, "authenticated", "guest"} :
       editCookies("session", NoToken, value)
  \/ tick(n)

NextAuth == Auth(AuthTicks)

SpecAuth == Init /\ [][NextAuth]_vars


\* ================================================================ claims
Constructed(c) == clients[c].role # "none"

IsPrefix(p, q) == Len(p) <= Len(q) /\ SubSeq(q, 1, Len(p)) = p

\* the frame numbers of a sequence grow: submission order
Increasing(q) == \A i \in 1..Len(q) : \A j \in 1..Len(q) : i < j => q[i] < q[j]

AudioMsgs(q) == [i \in 1..Len(q) |-> AudioMsg(q[i])]

\* what socket s has on the wire is the configuration message followed by
\* audio frames in submission order
WireInOrder(s) ==
  LET sent == sockets[s].sent IN
  sent # <<>> =>
    /\ sent[1] = ConfigMsg
    /\ \A i \in 2..Len(sent) : sent[i].t = "audio"
    /\ Increasing([i \in 1..(Len(sent) - 1) |-> sent[i + 1].n])

\* the open event of socket s puts the configuration message and then the
\* whole queue of its client on the wire, and empties the queue
OpenFlushes(s) ==
  LET c == sockets[s].owner IN
  (sockets[s].readyState = "connecting" /\ sockets'[s].readyState = "open") =>
    /\ clients'[c].state = "STREAMING"
    /\ sockets'[s].sent = <<ConfigMsg>> \o AudioMsgs(clients[c].pendingAudioChunks)
    /\ flushed' = clients[c].pendingAudioChunks
    /\ clients'[c].pendingAudioChunks = <<>>

\* C1: the frames queued by sendAudio before the socket opened are sent on the
\* socket right after the configuration message, in submission order, and
\* every frame submitted later comes after them (the wire only grows, in
\* submission order).
C1_QueuedFramesFlushedInOrder ==
  /\ [](\A s \in SocketIds : WireInOrder(s))
  /\ [](\A c \in ClientIds : Increasing(clients[c].pendingAudioChunks))
  /\ [][\A s \in SocketIds : OpenFlushes(s) /\ IsPrefix(sockets[s].sent, sockets'[s].sent)]_vars

\* a socket has just opened and flushed a queue of at least two frames
C1_Witness ==
  \E s \in SocketIds :
    /\ sockets[s].readyState = "open"
    /\ Len(flushed) >= 2
    /\ sockets[s].sent = <<ConfigMsg>> \o AudioMsgs(flushed)
    /\ clients[sockets[s].owner].state = "STREAMING"

\* C2: a frame queued while the Connection is not streaming leaves the queue
\* only by being flushed to the socket when the Connection reaches STREAMING
\* (close() aside, which discards the queue by contract), also across
\* automatic reconnects.
C2_NoQueuedFrameDropped ==
  [][\A c \in ClientIds :
       \/ IsPrefix(clients[c].pendingAudioChunks, clients'[c].pendingAudioChunks)
       \/ /\ clients'[c].state = "STREAMING"
          /\ flushed' = clients[c].pendingAudioChunks
       \/ clients'[c].closes > clients[c].closes]_vars

\* C3: while a secondary exists (the overlap window), a message given to the
\* Result Consumer comes from the secondary.
C3_OnlySecondaryForwardedInOverlap ==
  (forwarded # <<>> /\ secondaryClient # Null) => forwarded[1] = secondaryClient

Authoritative == IF secondaryClient # Null THEN secondaryClient ELSE primaryClient

\* C4: a message given to the Result Consumer comes from the authoritative
\* Connection (the secondary if one exists, else the primary), so never from a
\* Connection the Rotator has discarded.
C4_ForwardedFromAuthoritative ==
  forwarded # <<>> => forwarded[1] = Authoritative

\* sendAudio(f) on client c took effect once: the frame is the new last
\* message of its socket if c was streaming, else the new last queue entry
GotFrame(c, f) ==
  IF clients[c].state = "STREAMING" /\ clients[c].ws # Null
    THEN /\ sockets'[clients[c].ws].sent = Append(sockets[clients[c].ws].sent, AudioMsg(f))
         /\ clients'[c] = clients[c]
    ELSE clients'[c] = [clients[c] EXCEPT !.pendingAudioChunks = Append(@, f)]

\* C5: SessionRotator.sendAudio passes the frame once to the secondary (if
\* one exists) and then once to the primary, and to no other Connection.
C5_DualWrite ==
  [][nextFrame' = nextFrame + 1 =>
       /\ audioCalls' = (IF secondaryClient # Null THEN <<secondaryClient>> ELSE <<>>)
                        \o (IF primaryClient # Null THEN <<primaryClient>> ELSE <<>>)
       /\ \A c \in ClientIds :
            IF c \in {primaryClient, secondaryClient}
              THEN GotFrame(c, nextFrame)
              ELSE clients'[c] = clients[c]]_vars

\* a frame has just been written to the secondary, which queued it, and then
\* to the streaming primary, which sent it
C5_Witness ==
  /\ secondaryClient # Null
  /\ primaryClient # Null
  /\ audioCalls = <<secondaryClient, primaryClient>>
  /\ clients[secondaryClient].pendingAudioChunks # <<>>
  /\ clients[primaryClient].state = "STREAMING"
  /\ Len(sockets[clients[primaryClient].ws].sent) >= 2

\* client c failed to connect: a socket of it is closed, none of its sockets
\* ever opened (none carries the configuration message), close() was not called
FailedToConnect(c) ==
  /\ Constructed(c)
  /\ clients[c].closes = 0
  /\ clients[c].state \in {"ERROR", "CLOSED"}
  /\ \E s \in SocketIds : sockets[s].owner = c /\ sockets[s].readyState = "closed"
  /\ \A s \in SocketIds : sockets[s].owner = c => sockets[s].sent = <<>>

\* C6: once the Connection made by a rotation has failed to connect, it is
\* in no slot, the primary is there and was not closed, and a rotation is
\* scheduled.
C6_FailedSecondaryDiscarded ==
  \A c \in ClientIds :
    (Idle /\ ~stopped /\ clients[c].role = "secondary" /\ FailedToConnect(c)) =>
      /\ secondaryClient = Null
      /\ primaryClient \notin {Null, c}
      /\ clients[primaryClient].closes = 0
      /\ rotationTimer

\* C7: when the overlap timeout closes the old primary and promotes the
\* secondary, the secondary is STREAMING.
C7_PromotedSecondaryStreaming ==
  [][(overlapTimer /\ ~overlapTimer' /\ secondaryClient # Null)
       => clients[secondaryClient].state = "STREAMING"]_vars

\* C8: the promise of connect() is not resolved while the Connection is
\* still CONNECTING.
C8_ConnectSettlesOnOutcome ==
  \A c \in ClientIds :
    clients[c].connectPromise = "resolved" => clients[c].state # "CONNECTING"

\* C9: the overlap timeout closes the old primary (once in all), makes the
\* secondary the primary and leaves the secondary slot empty: one Connection
\* is owned afterwards.
C9_PromotionLeavesOnePrimary ==
  [][(overlapTimer /\ ~overlapTimer') =>
       /\ primaryClient # Null
       /\ clients'[primaryClient].closes = 1
       /\ primaryClient' = secondaryClient
       /\ primaryClient' # Null
       /\ secondaryClient' = Null]_vars

\* C10: after stop() has returned both slots are empty, every Connection
\* that was constructed is CLOSED (none is created, connecting or streaming),
\* and no message reaches the Result Consumer.
C10_NothingAfterStop ==
  (stopped /\ Idle) =>
    /\ primaryClient = Null
    /\ secondaryClient = Null
    /\ forwarded = <<>>
    /\ \A c \in ClientIds : Constructed(c) => clients[c].state = "CLOSED"

\* the rotation timeout fires and rotate() starts a secondary
RotationTrigger == rotationTimer /\ ~overlapTimer /\ overlapTimer'

\* C11: with every Connection connected (the primary is STREAMING), a
\* rotation is triggered exactly ROTATION_INTERVAL after the start of the
\* Connection that is the primary (the start of the session for the first
\* one, the previous rotation trigger for a promoted one), and a frame
\* submitted meanwhile is sent or queued by the primary, not dropped.
C11_RotationEveryInterval ==
  /\ [][(RotationTrigger /\ primaryClient # Null
          /\ clients[primaryClient].state = "STREAMING")
          => now' = clients[primaryClient].since + ROTATION_INTERVAL]_vars
  /\ [][(nextFrame' = nextFrame + 1 /\ primaryClient # Null)
          => GotFrame(primaryClient, nextFrame)]_vars

\* the places on the wire of client c's sockets that hold a finalize message
FinalizesSent(c) ==
  UNION {{<<s, i>> : i \in {j \in DOMAIN sockets[s].sent :
                              sockets[s].sent[j] = FinalizeMsg}} :
         s \in {t \in SocketIds : sockets[t].owner = c}}

\* C12: over the life of a Connection, however often finalize() is called
\* and across its automatic reconnects, at most one finalize message is sent.
C12_SingleFinalize ==
  \A c \in ClientIds : Cardinality(FinalizesSent(c)) <= 1

\* the running task called sendAudio on client c
SentAudioTo(c) == \E i \in DOMAIN audioCalls' : audioCalls'[i] = c

\* no audio frame follows a finalize message on the wire of socket s
NoAudioAfterFinalize(s) ==
  LET sent == sockets[s].sent IN
  \A i \in DOMAIN sent : \A j \in DOMAIN sent :
    (i < j /\ sent[i] = FinalizeMsg) => sent[j].t # "audio"

\* C13: sendAudio on a Connection that is STREAMING with finalize requested
\* sends nothing and queues nothing; no socket carries an audio frame after
\* its finalize message.
C13_NoAudioAfterFinalize ==
  /\ [](\A s \in SocketIds : NoAudioAfterFinalize(s))
  /\ [][\A c \in ClientIds :
          (SentAudioTo(c) /\ clients[c].state = "STREAMING" /\ clients[c].ws # Null
           /\ clients[c].finalizeRequested)
            => sockets' = sockets /\ clients'[c] = clients[c]]_vars

\* sendAudio has just been called on a streaming Connection whose last
\* message on the wire is its finalize message
C13_Witness ==
  /\ audioCalls = <<TheClient>>
  /\ clients[TheClient].state = "STREAMING"
  /\ clients[TheClient].finalizeRequested
  /\ clients[TheClient].ws # Null
  /\ LET sent == sockets[clients[TheClient].ws].sent
     IN sent # <<>> /\ sent[Len(sent)] = FinalizeMsg

OwnedBy(c) == {s \in SocketIds : sockets[s].owner = c}

\* the latest socket of client c that opened (it carries the configuration
\* message), 0 if none did
LastOpened(c) ==
  LET opened == {s \in OwnedBy(c) : sockets[s].sent # <<>>}
  IN IF opened = {} THEN 0 ELSE CHOOSE s \in opened : \A t \in opened : t <= s

\* the sockets of client c that were lost one after the other with no open
\* in between: the latest that opened and every later one, once closed
LostInARow(c) ==
  {s \in OwnedBy(c) : s >= LastOpened(c) /\ sockets[s].readyState = "closed"}

\* C14: once more sockets than maxReconnectAttempts were lost in a row and
\* the last failure has been handled, the Connection is in state ERROR, no
\* reconnect timeout is pending and no socket of it is being connected.
C14_ErrorAfterExhaustion ==
  \A c \in ClientIds :
    (Idle /\ Cardinality(LostInARow(c)) > maxReconnectAttempts) =>
      /\ clients[c].state = "ERROR"
      /\ ~clients[c].reconnectTimeout
      /\ \A s \in OwnedBy(c) : sockets[s].readyState = "closed"

\* C15: the delays of the reconnect timeouts armed with no open in between
\* are 1 s, 2 s, 4 s, 8 s, 8 s, and no more than 5 reconnect attempts follow
\* one another.
C15_BackoffDelays ==
  \A c \in ClientIds :
    /\ IsPrefix(clients[c].delays, <<1000, 2000, 4000, 8000, 8000>>)
    /\ Cardinality({s \in OwnedBy(c) : s > LastOpened(c)})
         <= 5 + (IF LastOpened(c) = 0 THEN 1 ELSE 0)

\* the fifth reconnect in a row is pending, 8 s after the failure
C15_Witness ==
  /\ clients[TheClient].reconnectTimeout
  /\ clients[TheClient].delays = <<1000, 2000, 4000, 8000, 8000>>
  /\ clients[TheClient].reconnectAttempts = 5

\* upstream has reported an error on the socket client c holds
Rejected(c) == clients[c].ws # Null /\ sockets[clients[c].ws].errored

\* C16: a Connection on whose socket upstream reported an error (a rejected
\* credential) and whose socket was then closed does not arm a reconnect
\* timeout: it does not connect again by itself with the same configuration.
C16_NoReconnectAfterRejection ==
  \A c \in ClientIds :
    (Rejected(c) /\ sockets[clients[c].ws].readyState = "closed")
      => ~clients[c].reconnectTimeout

\* a call of close() on a Connection that was closed before and was given
\* no audio since
ClosedAgain(c) ==
  /\ clients[c].closes >= 1
  /\ clients'[c].closes = clients[c].closes + 1
  /\ clients[c].pendingAudioChunks = <<>>

\* C17: a further close() on a closed Connection (to which the caller
\* submitted nothing in between) changes nothing (state, socket, queue,
\* finalize flag, reconnect timeout), closes no socket and notifies no state
\* change.
C17_CloseIdempotent ==
  [][\A c \in ClientIds :
       ClosedAgain(c) =>
         /\ clients'[c] = [clients[c] EXCEPT !.closes = @ + 1]
         /\ sockets' = sockets
         /\ stateChanges' = <<>>]_vars

\* the running task notified a state change or an error of client c
Notified(c) ==
  \/ \E i \in DOMAIN stateChanges' : stateChanges'[i].c = c
  \/ \E i \in DOMAIN errors' : errors'[i] = c

\* C18: once close() was called on a Connection, whatever event arrives
\* later, it stays CLOSED, no reconnect timeout is armed, no socket is
\* created and no state change or error is notified.
C18_ClosedIsTerminal ==
  [][\A c \in ClientIds :
       (clients[c].closes >= 1 /\ clients'[c].closes = clients[c].closes) =>
         /\ clients'[c].state = "CLOSED"
         /\ ~clients'[c].reconnectTimeout
         /\ NumSockets(sockets') = NumSockets(sockets)
         /\ ~Notified(c)]_vars

\* the configuration message is the first message on the wire of socket s
\* and the only one of its kind; an open socket carries it
ConfigFirst(s) ==
  LET sent == sockets[s].sent IN
  /\ sockets[s].readyState = "open" => sent # <<>>
  /\ sent # <<>> =>
       /\ sent[1] = ConfigMsg
       /\ \A i \in 2..Len(sent) : sent[i] # ConfigMsg

SpecifiedTransitions ==
  {<<"IDLE", "CONNECTING">>, <<"CONNECTING", "CONNECTED">>,
   <<"CONNECTED", "STREAMING">>, <<"STREAMING", "ERROR">>,
   <<"ERROR", "CONNECTING">>, <<"STREAMING", "CLOSED">>,
   <<"CONNECTED", "CLOSED">>}

\* C20: every state change a Connection makes is one of the specified
\* transitions.
C20_OnlySpecifiedTransitions ==
  \A i \in DOMAIN stateChanges :
    <<stateChanges[i].from, stateChanges[i].to>> \in SpecifiedTransitions

\* a result message that contains a final-flagged sentinel token
HasFinalSentinel(message) ==
  \E i \in DOMAIN message.tokens :
    trim(message.tokens[i].text) = Sentinel /\ isFinal(message.tokens[i])

\* what a completion leaves behind: the force-close timer, the awaiting
\* flag, the interim texts, the client reference, the clients and sockets
Completion(p) ==
  <<p.finalizeTimeoutRef, p.awaitingFinalizeRef, p.originalInterim,
    p.translatedInterim, p.wsClientRef, p.w.cl, p.w.so>>

\* the sockets that can deliver a message to the page
Delivering == {s \in SocketIds : /\ sockets[s].readyState = "open"
                                 /\ clients[sockets[s].owner].role = "page"}

\* C21: whenever upstream can deliver a message, a result message that
\* contains a final sentinel token leaves the page, its timer and its client
\* exactly as a message with finished: true would: timer cancelled, awaiting
\* flag and interim texts cleared, current client closed, reference dropped.
C21_SentinelCompletesAsFinished ==
  \A s \in Delivering : \A message \in EndingMsgs :
    HasFinalSentinel(message) =>
      Completion(handleMessage(Page, message, closures[sockets[s].owner]))
        = Completion(handleMessage(Page, FinishedMsg, closures[sockets[s].owner]))

\* the client still holds a connection or is about to open one
Live(c) ==
  \/ clients[c].reconnectTimeout
  \/ \E s \in SocketIds : /\ sockets[s].owner = c
                          /\ sockets[s].readyState \in {"connecting", "open"}

\* handleStop has called finalize() on c and nothing has closed c yet
AwaitingClose(c) ==
  /\ clients[c].role = "page"
  /\ FinalizesSent(c) # {}
  /\ clients[c].closes = 0
  /\ Live(c)

\* C22: a client that handleStop has finalized and that nothing has closed
\* yet always has the 2-second force-close timer pending for it, whatever
\* socket events and user actions came in between, so it is closed at the
\* latest when that timer fires.
C22_FinalizedClientIsForceClosed ==
  \A c \in ClientIds : AwaitingClose(c) => finalizeTimeoutRef = c

\* C23: during an overlap the configuration of the secondary Connection
\* equals the session's configuration in every field but the credential,
\* and its credential is not the one the primary Connection uses.
C23_SecondaryUsesFreshCredential ==
  (primaryClient # Null /\ secondaryClient # Null) =>
    LET mine == clients[secondaryClient].config IN
    /\ [mine EXCEPT !.api_key = currentConfig.api_key] = currentConfig
    /\ mine.api_key # clients[primaryClient].config.api_key

\* C24: every error the primary Connection raises outside an overlap window
\* (the handleError call of a socket error or of an upstream error message)
\* is handed on to the caller of the rotator by the error callback.
C24_PrimaryErrorsReachCaller ==
  \A i \in DOMAIN errors :
    (errors[i] = primaryClient /\ secondaryClient = Null) =>
      errorHandler(errors[i]) # <<>>

\* the running task is ws.onmessage of socket s with an error message
ErrorMessageOn(s) ==
  received'.k = "text" /\ received'.s = s /\ received'.m.error

\* C25: an inbound message that carries an error invokes the error callback
\* of its Connection exactly once and ends nothing: the Connection stays
\* STREAMING, its socket stays open with nothing sent on it, and its queue,
\* its finalize flag and its reconnect timer and count are as before.
C25_ErrorMessageDoesNotTerminate ==
  [][\A s \in SocketIds : ErrorMessageOn(s) =>
       LET c == sockets[s].owner IN
       /\ errors' = <<c>>
       /\ clients' = clients
       /\ clients'[c].state = "STREAMING"
       /\ sockets' = [sockets EXCEPT ![s].errored = TRUE]
       /\ sockets'[s].readyState = "open"]_vars

C25_Witness ==
  \E s \in SocketIds :
    /\ received.k = "text" /\ received.s = s /\ received.m.error
    /\ errors = <<sockets[s].owner>>
    /\ clients[sockets[s].owner].finalizeRequested
    /\ clients[sockets[s].owner].pendingAudioChunks = <<>>
    /\ Len(sockets[s].sent) > 1

\* C26: an inbound message that cannot be parsed is dropped without effect:
\* no Connection and no socket changes, neither the message handler nor the
\* error handler nor the state-change handler is called for it, and the
\* socket is left open with no callback running, so that ws.onmessage
\* takes the next message as it would have without the dropped one.
C26_UnparseableMessageDropped ==
  [][received'.k = "garbage" =>
       /\ clients' = clients
       /\ sockets' = sockets
       /\ forwarded' = <<>>
       /\ errors' = <<>>
       /\ stateChanges' = <<>>
       /\ wsState' = wsState
       /\ sockets'[received'.s].readyState = "open"
       /\ task' = IdleTask]_vars

C26_Witness ==
  /\ received.k = "garbage"
  /\ clients[sockets[received.s].owner].state = "STREAMING"
  /\ clients[sockets[received.s].owner].finalizeRequested
  /\ sockets[received.s].errored

\* C27: the message handler is given the messages of a socket in the order
\* the socket delivered them: when it is called for a message in the task
\* that delivered it, no message the same socket delivered earlier is still
\* waiting for its handler call.
C27_InboundOrderKept ==
  [][received'.k = "text" => received'.s \notin inflight]_vars

\* a token counts as final when either spelling of the flag is true
FlaggedFinal(token) == token.is_final = "true" \/ token.final = "true"

RoleOf(token) ==
  IF token.translation_status = "translation" THEN "translation" ELSE "original"

\* the texts, in token order, of the tokens of a role that are (not) final
TextsOf(tokens, role, final) ==
  LET chosen == SelectSeq(tokens, LAMBDA t : RoleOf(t) = role
                                             /\ FlaggedFinal(t) = final)
  IN [i \in 1..Len(chosen) |-> chosen[i].text]

\* the running task is handleMessage with a result message
ResultHandled ==
  received'.k = "text" /\ ~received'.m.finished /\ received'.m.tokens # <<>>

Attributed(tokens) == \A i \in DOMAIN tokens : tokens[i].speaker # 0

\* C28: handling a result message (of tokens with a speaker) appends the
\* texts of its final original tokens, in token order, to the original
\* final text and those of its final translation tokens to the translation
\* final text, and replaces each interim text by the texts of its non-final
\* tokens of that role; final is a token with is_final or final true.
C28_TokensAccumulated ==
  [][(ResultHandled /\ Attributed(received'.m.tokens)) =>
       LET tokens == received'.m.tokens IN
       /\ originalFinalText' = originalFinalText \o TextsOf(tokens, "original", TRUE)
       /\ translatedFinalText' =
            translatedFinalText \o TextsOf(tokens, "translation", TRUE)
       /\ originalInterim' = TextsOf(tokens, "original", FALSE)
       /\ translatedInterim' = TextsOf(tokens, "translation", FALSE)]_vars

\* the texts of the tokens that have no speaker yet
PendingTexts == {t.text : t \in {u \in SessionTokens : u.speaker = 0}}

Shown(text) == {text[i] : i \in DOMAIN text}

\* C29: a token whose speaker id is 0 is left out of every accumulation:
\* its text is in none of the final and interim texts of the page.
C29_PendingTokensExcluded ==
  (Shown(originalFinalText) \cup Shown(translatedFinalText)
     \cup Shown(originalInterim) \cup Shown(translatedInterim))
    \cap PendingTexts = {}

\* the overlap timeout runs: the secondary is promoted
Promotion == overlapTimer /\ ~overlapTimer'

\* the rotation timer fires and rotate() opens a secondary
RotationBegins == rotationTimer /\ secondaryClient' # Null /\ secondaryClient' # secondaryClient

\* C30: a promotion leaves one rotation timer pending, due ROTATION_INTERVAL
\* after the promotion instant; the rotation timer is never pending together
\* with the overlap timeout that is going to arm it again; and a rotation
\* only begins while there is no secondary Connection.
C30_OneRotationScheduledAtPromotion ==
  [][/\ Promotion => (rotationTimer' /\ rotationDue' = now' + ROTATION_INTERVAL)
     /\ ~(rotationTimer' /\ overlapTimer')
     /\ RotationBegins => secondaryClient = Null]_vars

C30_Witness ==
  /\ rotationTimer
  /\ primaryClient # Null
  /\ clients[primaryClient].role = "secondary"
  /\ now = ROTATION_INTERVAL + OVERLAP_DURATION
  /\ rotationDue = now + ROTATION_INTERVAL

\* the Connection is open: it is not in state CLOSED, or a socket of it
\* is open or being connected
Open(c) ==
  /\ Constructed(c)
  /\ \/ clients[c].state \notin {"IDLE", "CLOSED"}
     \/ \E s \in OwnedBy(c) : sockets[s].readyState \in {"connecting", "open"}

\* the time since the Connection was constructed and connected
Age(c, t) == t - clients[c].since

\* C31: in a session whose sockets all open, a Connection is never open at
\* a time of HardLimit or more after its connect began, and the overlap
\* timeout closes the primary at an age of at most ROTATION_INTERVAL +
\* 2 * OVERLAP_DURATION.
C31_ClosedBeforeHardLimit ==
  /\ [](\A c \in ClientIds : Open(c) => Age(c, now) < HardLimit)
  /\ [][(Promotion /\ primaryClient # Null) =>
          Age(primaryClient, now') <= ROTATION_INTERVAL + 2 * OVERLAP_DURATION]_vars

\* side formulas of C31: the closes themselves are on time, and a
\* Connection that was not closed yet is never open past the limit
C31_ClosesOnTime ==
  [][(Promotion /\ primaryClient # Null) =>
       /\ clients'[primaryClient].closes = 1
       /\ Age(primaryClient, now') <= ROTATION_INTERVAL + 2 * OVERLAP_DURATION]_vars

C31_UnclosedYoung ==
  \A c \in ClientIds : (Open(c) /\ clients[c].closes = 0) => Age(c, now) < HardLimit

\* the sockets of client c that are open or being connected
LiveSockets(c) ==
  {s \in OwnedBy(c) : sockets[s].readyState \in {"connecting", "open"}}

\* the running task is an event (open, error, close) of socket s
EventOf(s) ==
  \/ /\ sockets'[s].readyState # sockets[s].readyState
     /\ sockets'[s].readyState \in {"open", "closed"}
  \/ task.k = "close" /\ task.s = s

\* the client of socket s has constructed a socket after s
Superseded(s) == \E t \in OwnedBy(sockets[s].owner) : t > s

\* C32: a Connection never has two sockets that are open or being
\* connected, and an event of a socket the Connection has replaced by a
\* newer one does not change the Connection's state.
C32_OneLiveSocket ==
  /\ [](\A c \in ClientIds : Cardinality(LiveSockets(c)) <= 1)
  /\ [][\A s \in SocketIds :
          (sockets[s].owner # Null /\ EventOf(s) /\ Superseded(s)) =>
            clients'[sockets[s].owner].state = clients[sockets[s].owner].state]_vars

\* side formula of C32: the two parts, each alone
C32_AtMostOneLive == \A c \in ClientIds : Cardinality(LiveSockets(c)) <= 1

C32_OldEventsInert ==
  [][\A s \in SocketIds :
       (sockets[s].owner # Null /\ EventOf(s) /\ Superseded(s)) =>
         clients'[sockets[s].owner].state = clients[sockets[s].owner].state]_vars

\* finalize() on client c returns at once: finalize was requested already,
\* there is no socket, or the state is not CONNECTED or STREAMING
FinalizeIsNoOp(c) ==
  \/ clients[c].finalizeRequested
  \/ clients[c].ws = Null
  \/ clients[c].state \notin {"CONNECTED", "STREAMING"}

\* C33: a call of finalize() that finds finalize requested, no socket, or a
\* state other than CONNECTED and STREAMING sends nothing, changes nothing
\* and notifies nothing; otherwise, if the send throws, the error callback is
\* called once and the flag and everything else stay as they were; if the
\* send returns, the flag is set, the finalize message is the next message of
\* an open socket, and nothing else changes.
C33_FinalizeEffect ==
  [][callerFinalize =>
       LET c == TheClient
           s == clients[c].ws
       IN /\ stateChanges' = <<>>
          /\ IF FinalizeIsNoOp(c)
               THEN clients' = clients /\ sockets' = sockets /\ errors' = <<>>
             ELSE IF sockets[s].readyState = "connecting"
               THEN clients' = clients /\ sockets' = sockets /\ errors' = <<c>>
             ELSE /\ clients' = [clients EXCEPT ![c].finalizeRequested = TRUE]
                  /\ errors' = <<>>
                  /\ sockets' = IF sockets[s].readyState = "open"
                                  THEN [sockets EXCEPT ![s].sent = Append(@, FinalizeMsg)]
                                  ELSE sockets]_vars

\* finalize() has just failed to send: the Connection is CONNECTED or
\* STREAMING, the socket it holds is still connecting, the error callback
\* was called and the flag is unset
C33_Witness ==
  /\ clients[TheClient].state \in {"CONNECTED", "STREAMING"}
  /\ clients[TheClient].ws # Null
  /\ sockets[clients[TheClient].ws].readyState = "connecting"
  /\ errors = <<TheClient>>
  /\ stateChanges = <<>>
  /\ ~clients[TheClient].finalizeRequested

\* finalize() has just sent: the finalize message is the last message on
\* the wire and the flag is set
C33_WitnessSent ==
  /\ clients[TheClient].state = "STREAMING"
  /\ clients[TheClient].finalizeRequested
  /\ clients[TheClient].ws # Null
  /\ LET sent == sockets[clients[TheClient].ws].sent
     IN sent # <<>> /\ sent[Len(sent)] = FinalizeMsg

\* the running task is the close event of socket s with code 1006
AbnormalCloseOf(s) ==
  \/ SocketClose(s, AbnormalClosure)
  \/ SocketCloseEvent /\ task.s = s /\ task.code = AbnormalClosure

\* client c has constructed a socket in the running task, with its
\* configuration as it was
Reconnects(c) ==
  /\ clients'[c].ws # Null
  /\ sockets[clients'[c].ws].readyState = "none"
  /\ sockets'[clients'[c].ws] = [NoSocket EXCEPT !.owner = c, !.readyState = "connecting"]
  /\ clients'[c].state = "CONNECTING"
  /\ clients'[c].config = clients[c].config
  /\ clients[c].config = Cfg

\* the sockets a run may still construct
SocketsLeft == NumSockets(sockets) < OutageSockets

\* C34: the close event of an abnormal closure with reconnect attempts left
\* arms the reconnect timeout; a pending reconnect timeout stays pending
\* until it fires (or close() is called), and when it fires the Connection
\* constructs a socket with the same config; the open event of that socket
\* sends the config, makes the Connection STREAMING and resets the attempt
\* counter to 0; and a pending timeout does fire: the new attempt is made.
C34_ReconnectsAfterAbnormalClosure ==
  /\ [][\A s \in SocketIds :
          (AbnormalCloseOf(s)
           /\ clients[sockets[s].owner].reconnectAttempts < maxReconnectAttempts)
            => /\ clients'[sockets[s].owner].reconnectTimeout
               /\ clients'[sockets[s].owner].state = "CLOSED"]_vars
  /\ [][\A c \in ClientIds :
          (clients[c].reconnectTimeout /\ ~clients'[c].reconnectTimeout)
            => (Reconnects(c) \/ clients'[c].closes > clients[c].closes)]_vars
  /\ [][\A s \in SocketIds :
          (sockets[s].readyState = "connecting" /\ sockets'[s].readyState = "open")
            => LET c == sockets[s].owner IN
               /\ clients'[c].state = "STREAMING"
               /\ clients'[c].reconnectAttempts = 0
               /\ clients'[c].config = Cfg
               /\ sockets'[s].sent[1] = ConfigMsg]_vars
  /\ \A c \in ClientIds :
       (clients[c].reconnectTimeout /\ SocketsLeft)
         ~> (\E s \in OwnedBy(c) : sockets[s].readyState = "connecting")

\* the socket of a reconnect has opened after the socket before it, which
\* had opened as well, was closed abnormally: the Connection streams again
C34_Witness ==
  \E s \in SocketIds :
    /\ s > 1
    /\ sockets[s].owner = TheClient
    /\ sockets[s].readyState = "open"
    /\ sockets[s].sent = <<ConfigMsg>>
    /\ sockets[s - 1].readyState = "closed"
    /\ sockets[s - 1].sent # <<>>
    /\ clients[TheClient].state = "STREAMING"
    /\ clients[TheClient].ws = s
    /\ clients[TheClient].reconnectAttempts = 0
    /\ clients[TheClient].config = Cfg
    /\ stateChanges # <<>>

\* C35: the task of a socket failure (no inbound message is being handled)
\* calls the error callback of a Connection only if the Connection has no
\* reconnect attempt left; with attempts left the caller only sees the
\* state changes.
C35_TransientFailureNotAnError ==
  [][received'.k = "none" =>
       \A i \in DOMAIN errors' :
         clients[errors'[i]].reconnectAttempts >= maxReconnectAttempts]_vars

\* side formula of C35: a socket failure always notifies a state change
\* and every error event calls the error callback, whatever attempts are left
C35_EveryErrorEventReported ==
  [][\A s \in SocketIds : SocketFail(s) =>
       errors' = <<sockets[s].owner>>]_vars

\* the audio frames on the wire of socket s
AudioOn(so, s) == SelectSeq(so[s].sent, LAMBDA m : m.t = "audio")

\* C36: once a finalize message of a Connection is on the wire, the
\* Connection constructs no socket any more and no audio frame is added to
\* the wire of any of its sockets, whatever closes the socket in between.
C36_NoResumeAfterFinalize ==
  [][\A c \in ClientIds :
       FinalizesSent(c) # {} =>
         /\ \A s \in SocketIds :
              sockets[s].readyState = "none" => sockets'[s].owner # c
         /\ \A s \in OwnedBy(c) : AudioOn(sockets', s) = AudioOn(sockets, s)]_vars

\* side formulas of C36, each half alone
C36_NoSocketAfterFinalize ==
  [][\A c \in ClientIds :
       FinalizesSent(c) # {} =>
         \A s \in SocketIds :
           sockets[s].readyState = "none" => sockets'[s].owner # c]_vars

C36_NoAudioAfterFinalize ==
  [][\A c \in ClientIds :
       FinalizesSent(c) # {} =>
         \A s \in SocketIds :
           sockets'[s].owner = c =>
             Len(AudioOn(sockets', s)) = Len(AudioOn(sockets, s))]_vars

LoggedIn == verifySessionToken(jar.rt_auth, clock) # NoSession

\* C38: POST /api/smooth-text answers 401 exactly to the requests that carry
\* no valid login session, and calls the smoother only for a request that
\* carries one; so a request right after a successful login is not refused.
C38_SmoothTextRequiresLogin ==
  response.route = "smooth-text" =>
    /\ response.status = 401 <=> ~LoggedIn
    /\ response.smoothed => LoggedIn

\* side formulas of C38, each direction alone
C38_NoSessionRefused ==
  (response.route = "smooth-text" /\ ~LoggedIn) =>
    (response.status = 401 /\ ~response.smoothed)

C38_SessionAccepted ==
  (response.route = "smooth-text" /\ LoggedIn) => response.status # 401

====
